---- MODULE Spec2Model ----
(***************************************************************************)
(* Multi-session orchestrator of dairui1/claudia (src-tauri/src/           *)
(* multi_session): the SessionManager registry and its operations, the     *)
(* per-child stdout/stderr pumps of ProcessManager, the GitWorktree        *)
(* working copies on disk and the AutoYesManager polling loop.             *)
(*                                                                         *)
(* Strings are sequences of one-character strings, so that substring and   *)
(* regex tests are computed the way the code computes them.                *)
(***************************************************************************)
EXTENDS Integers, Sequences, FiniteSets, TLC

\* ------------------------------------------------------------------ bounds
\* calls of manager operations made by the callers in one behaviour
MaxCalls == 3
\* stdout lines the children write in one behaviour
MaxLines == 1
\* stderr lines the children write in one behaviour
MaxErrLines == 1
\* distinct 8-character id prefixes Uuid::new_v4 may produce
NumPrefixes == 2
\* the same, where one caller pauses and resumes a session
MaxPumpCalls == 3
MaxPumpLines == 2
\* the same, where the auto-responder polls one caller's sessions
MaxResponderCalls == 1
MaxResponderLines == 2
\* ticks of the auto-responder's interval in one behaviour
MaxTicks == 2
\* failures of the environment (git, the database, spawn, the stdin pipe)
\* injected in one behaviour
MaxFaults == 1
MaxSessionCalls == 3
MaxPreview == 2
MaxBufferCalls == 2
MaxAppends == 4
MaxCap == 2
MaxStderrCalls == 2
MaxStderrLines == 2
\* failures of "git worktree remove" injected in one behaviour
MaxRemoveFaults == 1

\* broadcast::channel(1000): the events the bus retains, scaled down
BusCapacity == 2
\* operations called and lines written by a child while the bus is watched
MaxBusCalls == 1
MaxBusLines == 2

\* operations called while sessions are listed
MaxListCalls == 3

\* SessionManager::new(db, max_concurrent_sessions): the cap under test
max_concurrent_sessions == 1

Callers == {"t1", "t2"}
Responder == "responder"
Tasks == Callers \cup {Responder}
\* the tasks spawned by setup_session_events, one receiver each
Subscribers == {"u1", "u2"}
Prefixes == 1..NumPrefixes
None == "none"
\* no session id / no child handle / no string (Option::None)
NoId == <<0, 0>>
NoChild == 0
NoString == << >>
Some(x) == <<x>>

\* ----------------------------------------------------------------- strings
UpperCase == <<"A","B","C","D","E","F","G","H","I","J","K","L","M",
               "N","O","P","Q","R","S","T","U","V","W","X","Y","Z">>
LowerCase == <<"a","b","c","d","e","f","g","h","i","j","k","l","m",
               "n","o","p","q","r","s","t","u","v","w","x","y","z">>

\* (?i): one character folded to lower case
ToLower(c) ==
    IF \E i \in DOMAIN UpperCase : UpperCase[i] = c
    THEN LowerCase[CHOOSE i \in DOMAIN UpperCase : UpperCase[i] = c]
    ELSE c

Lower(s) == [i \in DOMAIN s |-> ToLower(s[i])]

\* sub occurs in s starting at position i
OccursAt(s, sub, i) ==
    /\ i + Len(sub) - 1 <= Len(s)
    /\ \A k \in 1..Len(sub) : s[i + k - 1] = sub[k]

\* str::contains
Contains(s, sub) == \E i \in 1..(Len(s) + 1) : OccursAt(s, sub, i)

\* ------------------------------------------------------------------- lines
Str_Ready == <<"R","e","a","d","y">>
Str_Human == <<"H","u","m","a","n",":">>
Str_Working == <<"W","o","r","k","i","n","g">>
Str_Thinking == <<"T","h","i","n","k","i","n","g">>
Str_Running == <<"R","u","n","n","i","n","g">>
Str_Executing == <<"E","x","e","c","u","t","i","n","g">>
Str_Complete == <<"C","o","m","p","l","e","t","e">>
Str_Done == <<"D","o","n","e">>
Str_FATAL == <<"F","A","T","A","L">>
Str_CRITICAL == <<"C","R","I","T","I","C","A","L">>
Str_FailedInit == <<"F","a","i","l","e","d"," ","t","o"," ",
                    "i","n","i","t","i","a","l","i","z","e">>
Str_PermDenied == <<"P","e","r","m","i","s","s","i","o","n"," ",
                    "d","e","n","i","e","d">>
Str_ErrorPrefix == <<"[","E","R","R","O","R","]"," ">>

\* ProcessManager::detect_status_from_output
detect_status_from_output(line) ==
    IF Contains(line, Str_Ready) \/ Contains(line, Str_Human) THEN "Ready"
    ELSE IF Contains(line, Str_Working) \/ Contains(line, Str_Thinking) THEN "Loading"
    ELSE IF Contains(line, Str_Running) \/ Contains(line, Str_Executing) THEN "Running"
    ELSE IF Contains(line, Str_Complete) \/ Contains(line, Str_Done) THEN "Completed"
    ELSE None

is_critical_error_FatalOnly(line) == Contains(line, Str_FATAL)

\* ProcessManager::is_critical_error
is_critical_error(line) ==
    \/ Contains(line, Str_FATAL)
    \/ Contains(line, Str_CRITICAL)
    \/ Contains(line, Str_FailedInit)
    \/ Contains(line, Str_PermDenied)

\* what a child writes to stdout / stderr in the lifecycle specification
Line_Ready == <<"R","e","a","d","y">>
Line_ok == <<"o","k">>
Line_FATAL == <<"F","A","T","A","L",":"," ","b","o","o","m">>
StdoutLines == {Line_Ready, Line_ok}
StderrLines == {Line_FATAL}

\* ------------------------------------------------------------------- state
VARIABLES
    sessions,       \* SessionManager.sessions: ids in the registry
    status,         \* Session.status, per allocated Session
    process,        \* Session.process: a child id or NoChild
    output_buffer,  \* Session.output_buffer
    error_message,  \* Session.error_message
    config,         \* Session.config
    worktree,       \* Session.worktree_path / branch_name (0: not yet set)
    children,       \* spawned child processes: [session, alive, stdin]
    stdout_pump,    \* per child: the detached stdout task
    stderr_pump,    \* per child: the detached stderr task
    worktrees,      \* working copies that exist on disk (by path)
    branches,       \* branches that exist in the repository
    db,             \* rows of multi_sessions
    events,         \* everything sent on event_tx, in order
    readers,        \* read guards of the registry RwLock held, per task
    waitq,          \* tasks queued on the registry RwLock, FIFO
    task,           \* per task: the operation it runs and where it is
    calls,          \* operations called and responder ticks so far
    faults          \* failures injected so far: [op, remove]

sessVars == <<status, process, output_buffer, error_message, config, worktree>>
procVars == <<children, stdout_pump, stderr_pump>>
diskVars == <<worktrees, branches>>
lockVars == <<readers, waitq>>
vars == <<sessions, status, process, output_buffer, error_message, config,
          worktree, children, stdout_pump, stderr_pump, worktrees, branches,
          db, events, readers, waitq, task, calls, faults>>

Idle == [pc |-> "idle", op |-> None, id |-> NoId, res |-> None,
         removed |-> None, todo |-> {}, infos |-> << >>, input |-> << >>,
         auto_yes |-> FALSE, lines |-> 0, out |-> << >>,
         since |-> 0, next |-> 0, received |-> << >>]

Init ==
    /\ sessions = {}
    /\ status = << >>
    /\ process = << >>
    /\ output_buffer = << >>
    /\ error_message = << >>
    /\ config = << >>
    /\ worktree = << >>
    /\ children = << >>
    /\ stdout_pump = << >>
    /\ stderr_pump = << >>
    /\ worktrees = {}
    /\ branches = {}
    /\ db = << >>
    /\ events = << >>
    /\ readers = [t \in Tasks |-> 0]
    /\ waitq = << >>
    /\ task = [t \in Tasks \cup Subscribers |-> Idle]
    /\ calls = [ops |-> 0, ticks |-> 0]
    /\ faults = [op |-> 0, remove |-> 0]

\* the outcomes the environment chooses in a step: each FALSE is one failure
Cost(b) == IF b THEN 0 ELSE 1
Faulty(ok, rm) ==
    /\ faults.op + Cost(ok) <= MaxFaults
    /\ faults.remove + Cost(rm) <= MaxRemoveFaults
    /\ faults' = [op |-> faults.op + Cost(ok), remove |-> faults.remove + Cost(rm)]

\* a function extended or overwritten at one point
Put(f, k, v) == [x \in (DOMAIN f) \cup {k} |-> IF x = k THEN v ELSE f[x]]

\* ids of the Session objects allocated so far
Allocated == DOMAIN status

\* &session_id[..8]
IdPrefix(id) == id[1]

\* ---------------------------------------------------------------- events
\* status: the status of StatusChanged; text: the line of OutputAppended and
\* Error; src: the child whose pump sent it (0: the manager), kept to tell
\* the pumps of one session apart
Event(type, id, st, text, src) ==
    [type |-> type, session_id |-> id, status |-> st, text |-> text, src |-> src]

\* broadcast::Sender::send: never blocks
Send(e) == events' = Append(events, e)

\* the position of the oldest event the channel of BusCapacity slots retains
Oldest == IF Len(events) > BusCapacity THEN Len(events) - BusCapacity ELSE 0

\* broadcast::Receiver::recv of a receiver that has seen the events up to
\* next: Err(Lagged) when the event after next is overwritten, and the
\* receiver skips to the oldest retained one; else Ok(that event)
recv_NoLag(next) ==
    [ok |-> TRUE, seq |-> next + 1, event |-> events[next + 1], next |-> next + 1]
recv(next) ==
    IF next < Oldest
    THEN [ok |-> FALSE, skipped |-> Oldest - next, next |-> Oldest]
    ELSE [ok |-> TRUE, seq |-> next + 1, event |-> events[next + 1], next |-> next + 1]

\* setup_session_events: session_manager.subscribe_events(), a receiver of
\* the events sent from now on
Subscribe(u) ==
    /\ task[u].pc = "idle"
    /\ task' = [task EXCEPT ![u] = [Idle EXCEPT !.pc = "recv", !.op = "forward",
                                                !.since = Len(events),
                                                !.next = Len(events)]]
    /\ UNCHANGED <<sessions, sessVars, procVars, diskVars, db, events, lockVars,
                   calls, faults>>

\* while let Ok(event) = event_rx.recv().await { emit("session-event", &event) }
Forward(u) ==
    /\ task[u].pc = "recv"
    /\ task[u].next < Len(events)
    /\ LET r == recv(task[u].next)
       IN  task' = [task EXCEPT ![u] =
                IF r.ok
                THEN [@ EXCEPT !.next = r.next,
                               !.received = Append(@, [seq |-> r.seq, event |-> r.event])]
                ELSE [@ EXCEPT !.pc = "stopped", !.res = "Lagged", !.next = r.next]]
    /\ UNCHANGED <<sessions, sessVars, procVars, diskVars, db, events, lockVars,
                   calls, faults>>

\* ------------------------------------------------------- registry RwLock
\* tokio::sync::RwLock is fair: a request queued behind a waiting writer
\* waits, whatever it asks for. Write guards are never held across a step.
InQueue(t) == \E i \in DOMAIN waitq : waitq[i][1] = t
AtTurn(t) == IF InQueue(t) THEN Head(waitq)[1] = t ELSE waitq = << >>
ReadGranted(t) == AtTurn(t)
WriteGranted(t) == AtTurn(t) /\ \A u \in Tasks : readers[u] = 0
Granted(t, kind) == IF kind = "write" THEN WriteGranted(t) ELSE ReadGranted(t)
Dequeued(t) == IF InQueue(t) THEN Tail(waitq) ELSE waitq

\* the lock a task asks for at its position: sessions.read() / sessions.write()
LockKind(pc) ==
    CASE pc \in {"create_check", "pause_lock", "resume_lock", "diff_lock",
                 "list_lock", "list_diff", "input_lock", "config_lock",
                 "output_lock"} -> "read"
      [] pc \in {"create_insert", "terminate_remove"} -> "write"
      [] OTHER -> None

\* .await on the lock that cannot be granted now: the task queues
LockWait(t) ==
    /\ LockKind(task[t].pc) # None
    /\ ~InQueue(t)
    /\ ~Granted(t, LockKind(task[t].pc))
    /\ waitq' = Append(waitq, <<t, LockKind(task[t].pc)>>)
    /\ UNCHANGED <<sessions, sessVars, procVars, diskVars, db, events,
                   readers, task, calls, faults>>

\* ------------------------------------------------------------ GitWorktree
\* GitWorktree::new: branch "<prefix>-<id[..8]>", path ".../session-<id[..8]>";
\* every session uses the same branch_prefix, so both are named by id[..8]
GitWorktree_new(id) == [worktree_path |-> IdPrefix(id), branch_name |-> IdPrefix(id)]

NoWorktree == [worktree_path |-> 0, branch_name |-> 0]

\* GitWorktree::remove with ok = "git worktree remove --force" succeeded or
\* reported "not a working tree": the working copy and the branch are gone
RemovedWorktrees(wt, ok) == IF ok THEN worktrees \ {wt.worktree_path} ELSE worktrees
RemovedBranches(wt, ok) == IF ok THEN branches \ {wt.branch_name} ELSE branches

Drop_Forgotten(wt, ok) == UNCHANGED <<worktrees, branches>>

\* impl Drop for GitWorktree: let _ = self.remove()
Drop(wt, ok) ==
    /\ worktrees' = RemovedWorktrees(wt, ok)
    /\ branches' = RemovedBranches(wt, ok)

Removed(ok) == IF ok THEN "ok" ELSE "failed"

\* a task returns its result to the caller; removed: what the remove() of a
\* dropped GitWorktree came to in the returning step
Return(t, res, removed) ==
    task' = [task EXCEPT ![t] = [Idle EXCEPT !.pc = "returned", !.op = task[t].op,
                                             !.id = task[t].id, !.res = res,
                                             !.removed = removed,
                                             !.infos = task[t].infos,
                                             !.auto_yes = task[t].auto_yes,
                                             !.out = task[t].out]]

Goto(t, pc) == task' = [task EXCEPT ![t].pc = pc]

\* ------------------------------------------------------------ Session
\* Session::append_output: evict the head at capacity, push to the tail
append_output(buf, line, cap) ==
    IF Len(buf) >= cap
    THEN Append(IF buf = << >> THEN buf ELSE Tail(buf), line)
    ELSE Append(buf, line)

\* Session::get_output_preview: the last n lines, oldest first
get_output_preview(buf, n) ==
    IF Len(buf) <= n THEN buf ELSE SubSeq(buf, Len(buf) - n + 1, Len(buf))

\* SessionConfig::default()
DefaultBuffer == 10000
DefaultConfig == [auto_yes |-> FALSE, max_output_buffer |-> DefaultBuffer,
                  working_directory |-> FALSE]
\* working_directory: Some(a directory that exists)
DirConfig == [DefaultConfig EXCEPT !.working_directory = TRUE]
Configs == {DefaultConfig}

\* ----------------------------------------------------- ProcessManager
\* Command::spawn with current_dir(working_directory or else worktree_path):
\* fails when the directory is gone, and may fail for reasons of its own
\* (ok = FALSE)
SpawnSucceeds(id, ok) ==
    ok /\ (config[id].working_directory \/ worktree[id].worktree_path \in worktrees)

\* spawn_claude_session: the child and its two detached pumps
Spawned(id) ==
    /\ children' = Append(children, [session |-> id, alive |-> TRUE, stdin |-> << >>])
    /\ stdout_pump' = Append(stdout_pump, [pc |-> "read", line |-> << >>, n |-> 0])
    /\ stderr_pump' = Append(stderr_pump, [n |-> 0])

NewChild == Len(children) + 1

\* Child::kill
Killed(c) == [children EXCEPT ![c].alive = FALSE]

\* lines read so far by all pumps of one kind
RECURSIVE LinesRead(_)
LinesRead(pumps) == IF pumps = << >> THEN 0 ELSE Head(pumps).n + LinesRead(Tail(pumps))

StdoutPump_Line_Silent(c, line, max) ==
    LET id == children[c].session
        s == detect_status_from_output(line)
    IN  /\ stdout_pump[c].pc = "read"
        /\ LinesRead(stdout_pump) < max
        /\ output_buffer' = [output_buffer EXCEPT ![id] =
               append_output(@, line, config[id].max_output_buffer)]
        /\ status' = IF s # None THEN [status EXCEPT ![id] = s] ELSE status
        /\ stdout_pump' = [stdout_pump EXCEPT ![c] =
               [pc |-> "output", line |-> line, n |-> @.n + 1]]
        /\ UNCHANGED <<sessions, process, error_message, config, worktree, events,
                       children, stderr_pump, diskVars, db, lockVars, task, calls, faults>>

\* stdout pump, one line: append_output, then set_status and StatusChanged
\* when the line carries a status token
StdoutPump_Line(c, line, max) ==
    LET id == children[c].session
        s == detect_status_from_output(line)
    IN  /\ stdout_pump[c].pc = "read"
        /\ LinesRead(stdout_pump) < max
        /\ output_buffer' = [output_buffer EXCEPT ![id] =
               append_output(@, line, config[id].max_output_buffer)]
        /\ IF s # None
           THEN /\ status' = [status EXCEPT ![id] = s]
                /\ Send(Event("StatusChanged", id, s, << >>, c))
           ELSE UNCHANGED <<status, events>>
        /\ stdout_pump' = [stdout_pump EXCEPT ![c] =
               [pc |-> "output", line |-> line, n |-> @.n + 1]]
        /\ UNCHANGED <<sessions, process, error_message, config, worktree,
                       children, stderr_pump, diskVars, db, lockVars, task, calls, faults>>

\* stdout pump: the OutputAppended event of the line just handled
StdoutPump_Output(c) ==
    /\ stdout_pump[c].pc = "output"
    /\ Send(Event("OutputAppended", children[c].session, None, stdout_pump[c].line, c))
    /\ stdout_pump' = [stdout_pump EXCEPT ![c].pc = "read"]
    /\ UNCHANGED <<sessions, sessVars, children, stderr_pump, diskVars, db,
                   lockVars, task, calls, faults>>

\* Session::set_error
set_error(id, line) ==
    /\ error_message' = [error_message EXCEPT ![id] = Some(line)]
    /\ status' = [status EXCEPT ![id] = "Error"]

\* stderr pump, one line
StderrPump_Line(c, line, max) ==
    LET id == children[c].session
    IN  /\ LinesRead(stderr_pump) < max
        /\ output_buffer' = [output_buffer EXCEPT ![id] =
               append_output(@, Str_ErrorPrefix \o line, config[id].max_output_buffer)]
        /\ IF is_critical_error(line)
           THEN /\ set_error(id, line)
                /\ Send(Event("Error", id, None, line, c))
           ELSE UNCHANGED <<error_message, status, events>>
        /\ stderr_pump' = [stderr_pump EXCEPT ![c].n = @ + 1]
        /\ UNCHANGED <<sessions, process, config, worktree, children,
                       stdout_pump, diskVars, db, lockVars, task, calls, faults>>

\* ------------------------------------------------------- SessionManager
FirstPc(op) ==
    CASE op = "create" -> "create_check"
      [] op = "terminate" -> "terminate_remove"
      [] op = "pause" -> "pause_lock"
      [] op = "resume" -> "resume_lock"
      [] op = "get_diff" -> "diff_lock"
      [] op = "list_active" -> "list_lock"
      [] op = "send_input" -> "input_lock"
      [] op = "update_config" -> "config_lock"
      [] op = "get_output" -> "output_lock"

\* a caller invokes an operation of the manager; idle callers are
\* interchangeable, so the second one calls only while the first is busy
Call(t, op, id, max) ==
    /\ task[t].pc = "idle"
    /\ t = "t1" \/ task["t1"].pc # "idle"
    /\ calls.ops < max
    /\ calls' = [calls EXCEPT !.ops = @ + 1]
    /\ task' = [task EXCEPT ![t] = [Idle EXCEPT !.pc = FirstPc(op), !.op = op, !.id = id]]
    /\ UNCHANGED <<sessions, sessVars, procVars, diskVars, db, events, lockVars, faults>>

\* the caller has the result of its call
Returned(t) ==
    /\ task[t].pc = "returned"
    /\ task' = [task EXCEPT ![t] = Idle]
    /\ UNCHANGED <<sessions, sessVars, procVars, diskVars, db, events, lockVars,
                   calls, faults>>

\* create_session, lines 47-48: session_count >= self.max_concurrent_sessions
AtCapacity_Off == Cardinality(sessions) > max_concurrent_sessions
AtCapacity == Cardinality(sessions) >= max_concurrent_sessions

\* create_session, lines 46-61: the capacity check under a read guard that is
\* released at once, then Session::new with a fresh id
CreateSession_Check(t, cfg, prefix) ==
    /\ task[t].pc = "create_check"
    /\ ReadGranted(t)
    /\ waitq' = Dequeued(t)
    /\ IF AtCapacity
       THEN /\ Return(t, "AtCapacity", None)
            /\ UNCHANGED <<sessVars>>
       ELSE LET id == <<prefix, Cardinality(Allocated) + 1>>
            IN  /\ \A p \in 1..(prefix - 1) : \E a \in Allocated : IdPrefix(a) = p
                /\ status' = Put(status, id, "Initializing")
                /\ process' = Put(process, id, NoChild)
                /\ output_buffer' = Put(output_buffer, id, << >>)
                /\ error_message' = Put(error_message, id, NoString)
                /\ config' = Put(config, id, cfg)
                /\ worktree' = Put(worktree, id, NoWorktree)
                /\ task' = [task EXCEPT ![t].pc = "create_worktree", ![t].id = id]
    /\ UNCHANGED <<sessions, procVars, diskVars, db, events, readers, calls, faults>>

\* create_session, lines 63-78: GitWorktree::new and create(); "git worktree
\* add -b" fails when the path or the branch exists, or for reasons of its
\* own (ok = FALSE); the ? drops the worktree, which removes its path
CreateSession_Worktree(t, ok, rm) ==
    LET id == task[t].id
        wt == GitWorktree_new(id)
    IN  /\ task[t].pc = "create_worktree"
        /\ IF ok /\ wt.worktree_path \notin worktrees /\ wt.branch_name \notin branches
           THEN /\ rm
                /\ worktrees' = worktrees \cup {wt.worktree_path}
                /\ branches' = branches \cup {wt.branch_name}
                /\ worktree' = [worktree EXCEPT ![id] = wt]
                /\ Goto(t, "create_store")
           ELSE /\ Drop(wt, rm)
                /\ Return(t, "VcsCreateFailed", Removed(rm))
                /\ UNCHANGED worktree
        /\ Faulty(ok, rm)
        /\ UNCHANGED <<sessions, status, process, output_buffer, error_message,
                       config, procVars, db, events, lockVars, calls>>

\* create_session, line 81: store_session_in_db
CreateSession_Store(t, ok, rm) ==
    LET id == task[t].id
    IN  /\ task[t].pc = "create_store"
        /\ IF ok
           THEN /\ rm
                /\ db' = Put(db, id, [status |-> "running", auto_yes |-> config[id].auto_yes])
                /\ Goto(t, "create_spawn")
                /\ UNCHANGED diskVars
           ELSE /\ Drop(worktree[id], rm)
                /\ Return(t, "PersistFailed", Removed(rm))
                /\ UNCHANGED db
        /\ Faulty(ok, rm)
        /\ UNCHANGED <<sessions, sessVars, procVars, events, lockVars, calls>>

\* create_session, lines 84-90: spawn_claude_session, then the handle is stored
CreateSession_Spawn(t, ok, rm) ==
    LET id == task[t].id
    IN  /\ task[t].pc = "create_spawn"
        /\ IF SpawnSucceeds(id, ok)
           THEN /\ rm
                /\ Spawned(id)
                /\ process' = [process EXCEPT ![id] = NewChild]
                /\ Goto(t, "create_status")
                /\ UNCHANGED diskVars
           ELSE /\ Drop(worktree[id], rm)
                /\ Return(t, "SpawnFailed", Removed(rm))
                /\ UNCHANGED <<process, procVars>>
        /\ Faulty(ok, rm)
        /\ UNCHANGED <<sessions, status, output_buffer, error_message, config,
                       worktree, db, events, lockVars, calls>>

\* create_session, line 91: session.set_status(Running)
CreateSession_Status(t) ==
    /\ task[t].pc = "create_status"
    /\ status' = [status EXCEPT ![task[t].id] = "Running"]
    /\ Goto(t, "create_insert")
    /\ UNCHANGED <<sessions, process, output_buffer, error_message, config,
                   worktree, procVars, diskVars, db, events, lockVars, calls, faults>>

\* create_session, line 94: the insert under a write guard
CreateSession_Insert(t) ==
    /\ task[t].pc = "create_insert"
    /\ WriteGranted(t)
    /\ waitq' = Dequeued(t)
    /\ sessions' = sessions \cup {task[t].id}
    /\ Goto(t, "create_finish")
    /\ UNCHANGED <<sessVars, procVars, diskVars, db, events, readers, calls, faults>>

\* create_session, lines 97-102: SessionCreated is sent and Ok returned; the
\* local GitWorktree goes out of scope, and its Drop removes the working copy
CreateSession_Finish(t, rm) ==
    LET id == task[t].id
    IN  /\ task[t].pc = "create_finish"
        /\ Send(Event("SessionCreated", id, None, << >>, 0))
        /\ Drop(worktree[id], rm)
        /\ Return(t, "Ok", Removed(rm))
        /\ Faulty(TRUE, rm)
        /\ UNCHANGED <<sessions, sessVars, procVars, db, lockVars, calls>>

create_session(t, cfgs, prefixes) ==
    \/ \E cfg \in cfgs, prefix \in prefixes : CreateSession_Check(t, cfg, prefix)
    \/ \E ok, rm \in BOOLEAN : CreateSession_Worktree(t, ok, rm)
    \/ \E ok, rm \in BOOLEAN : CreateSession_Store(t, ok, rm)
    \/ \E ok, rm \in BOOLEAN : CreateSession_Spawn(t, ok, rm)
    \/ CreateSession_Status(t)
    \/ CreateSession_Insert(t)
    \/ \E rm \in BOOLEAN : CreateSession_Finish(t, rm)

Session_terminate_NoKill(id) ==
    /\ status' = [status EXCEPT ![id] = "Terminated"]
    /\ UNCHANGED <<children, process>>

\* Session::terminate: take and kill the child, then Terminated
Session_terminate(id) ==
    /\ children' = IF process[id] # NoChild THEN Killed(process[id]) ELSE children
    /\ process' = [process EXCEPT ![id] = NoChild]
    /\ status' = [status EXCEPT ![id] = "Terminated"]

\* serde_json::to_string(&status) with rename_all = "snake_case": the status
\* column gets the JSON text, quotes included
StatusJson(s) ==
    CASE s = "Paused" -> "\"paused\""
      [] s = "Running" -> "\"running\""
      [] s = "Terminated" -> "\"terminated\""

\* update_session_status_in_db
update_session_status_in_db(id, s) == [db EXCEPT ![id].status = StatusJson(s)]

\* terminate_session, lines 105-109: the removal under a write guard
TerminateSession_Remove(t) ==
    LET id == task[t].id
    IN  /\ task[t].pc = "terminate_remove"
        /\ WriteGranted(t)
        /\ waitq' = Dequeued(t)
        /\ IF id \in sessions
           THEN /\ sessions' = sessions \ {id}
                /\ Goto(t, "terminate_process")
           ELSE /\ Return(t, "NotFound", None)
                /\ UNCHANGED sessions
        /\ UNCHANGED <<sessVars, procVars, diskVars, db, events, readers, calls, faults>>

\* terminate_session, line 112: session.terminate()
TerminateSession_Process(t) ==
    /\ task[t].pc = "terminate_process"
    /\ Session_terminate(task[t].id)
    /\ Goto(t, "terminate_worktree")
    /\ UNCHANGED <<sessions, output_buffer, error_message, config, worktree,
                   stdout_pump, stderr_pump, diskVars, db, events, lockVars, calls, faults>>

\* terminate_session, lines 115-120: worktree.remove()?; on failure the ?
\* returns and the Drop tries the removal once more (rm)
TerminateSession_Worktree(t, ok, rm) ==
    LET wt == worktree[task[t].id]
    IN  /\ task[t].pc = "terminate_worktree"
        /\ IF ok
           THEN /\ rm
                /\ Drop(wt, TRUE)
                /\ Goto(t, "terminate_db")
           ELSE /\ Drop(wt, rm)
                /\ Return(t, "VcsRemoveFailed", Removed(rm))
        /\ Faulty(ok, rm)
        /\ UNCHANGED <<sessions, sessVars, procVars, db, events, lockVars, calls>>

\* terminate_session, line 123: the persisted status
TerminateSession_Db(t, ok, rm) ==
    LET id == task[t].id
    IN  /\ task[t].pc = "terminate_db"
        /\ IF ok
           THEN /\ rm
                /\ db' = update_session_status_in_db(id, "Terminated")
                /\ Goto(t, "terminate_finish")
                /\ UNCHANGED diskVars
           ELSE /\ Drop(worktree[id], rm)
                /\ Return(t, "PersistFailed", Removed(rm))
                /\ UNCHANGED db
        /\ Faulty(ok, rm)
        /\ UNCHANGED <<sessions, sessVars, procVars, events, lockVars, calls>>

\* terminate_session, lines 126-131: SessionTerminated, Ok, and the Drop
TerminateSession_Finish(t, rm) ==
    LET id == task[t].id
    IN  /\ task[t].pc = "terminate_finish"
        /\ Send(Event("SessionTerminated", id, None, << >>, 0))
        /\ Drop(worktree[id], rm)
        /\ Return(t, "Ok", Removed(rm))
        /\ Faulty(TRUE, rm)
        /\ UNCHANGED <<sessions, sessVars, procVars, db, lockVars, calls>>

terminate_session(t) ==
    \/ TerminateSession_Remove(t)
    \/ TerminateSession_Process(t)
    \/ \E ok, rm \in BOOLEAN : TerminateSession_Worktree(t, ok, rm)
    \/ \E ok, rm \in BOOLEAN : TerminateSession_Db(t, ok, rm)
    \/ \E rm \in BOOLEAN : TerminateSession_Finish(t, rm)

\* a read guard of the registry taken / given back by task t
Acquired(t) == readers' = [readers EXCEPT ![t] = @ + 1]
Released(t) == readers' = [readers EXCEPT ![t] = @ - 1]

\* git run with current_dir(worktree_path): Command::output fails when the
\* directory is gone
WorktreeDirExists(id) == worktree[id].worktree_path \in worktrees

\* pause_session, lines 134-136: the read guard is held to the end
PauseSession_Lock(t) ==
    /\ task[t].pc = "pause_lock"
    /\ ReadGranted(t)
    /\ waitq' = Dequeued(t)
    /\ IF task[t].id \in sessions
       THEN Acquired(t) /\ Goto(t, "pause_commit")
       ELSE Return(t, "NotFound", None) /\ UNCHANGED readers
    /\ UNCHANGED <<sessions, sessVars, procVars, diskVars, db, events, calls, faults>>

\* pause_session, lines 139-144: commit_changes("WIP: Pausing session")?
PauseSession_Commit(t, ok, rm) ==
    LET id == task[t].id
    IN  /\ task[t].pc = "pause_commit"
        /\ IF ok /\ WorktreeDirExists(id)
           THEN /\ rm
                /\ Goto(t, "pause_kill")
                /\ UNCHANGED <<diskVars, readers>>
           ELSE /\ Drop(worktree[id], rm)
                /\ Released(t)
                /\ Return(t, "VcsCommitFailed", Removed(rm))
        /\ Faulty(ok, rm)
        /\ UNCHANGED <<sessions, sessVars, procVars, db, events, waitq, calls>>

\* pause_session, lines 147-149: take the child handle and kill the child
PauseSession_Kill(t) ==
    LET id == task[t].id
    IN  /\ task[t].pc = "pause_kill"
        /\ children' = IF process[id] # NoChild THEN Killed(process[id]) ELSE children
        /\ process' = [process EXCEPT ![id] = NoChild]
        /\ Goto(t, "pause_status")
        /\ UNCHANGED <<sessions, status, output_buffer, error_message, config,
                       worktree, stdout_pump, stderr_pump, diskVars, db, events,
                       lockVars, calls, faults>>

\* pause_session, line 151: session.set_status(Paused)
PauseSession_Status(t) ==
    /\ task[t].pc = "pause_status"
    /\ status' = [status EXCEPT ![task[t].id] = "Paused"]
    /\ Goto(t, "pause_db")
    /\ UNCHANGED <<sessions, process, output_buffer, error_message, config,
                   worktree, procVars, diskVars, db, events, lockVars, calls, faults>>

\* pause_session, lines 152-155: the persisted status, then the return, where
\* the local GitWorktree is dropped and the read guard released
PauseSession_Db(t, ok, rm) ==
    LET id == task[t].id
    IN  /\ task[t].pc = "pause_db"
        /\ db' = IF ok THEN update_session_status_in_db(id, "Paused") ELSE db
        /\ Drop(worktree[id], rm)
        /\ Released(t)
        /\ Return(t, IF ok THEN "Ok" ELSE "PersistFailed", Removed(rm))
        /\ Faulty(ok, rm)
        /\ UNCHANGED <<sessions, sessVars, procVars, events, waitq, calls>>

pause_session(t) ==
    \/ PauseSession_Lock(t)
    \/ \E ok, rm \in BOOLEAN : PauseSession_Commit(t, ok, rm)
    \/ PauseSession_Kill(t)
    \/ PauseSession_Status(t)
    \/ \E ok, rm \in BOOLEAN : PauseSession_Db(t, ok, rm)

\* resume_session, lines 158-160
ResumeSession_Lock(t) ==
    /\ task[t].pc = "resume_lock"
    /\ ReadGranted(t)
    /\ waitq' = Dequeued(t)
    /\ IF task[t].id \in sessions
       THEN Acquired(t) /\ Goto(t, "resume_check")
       ELSE Return(t, "NotFound", None) /\ UNCHANGED readers
    /\ UNCHANGED <<sessions, sessVars, procVars, diskVars, db, events, calls, faults>>

ResumeSession_Check_Any(t) ==
    /\ task[t].pc = "resume_check"
    /\ Goto(t, "resume_spawn")
    /\ UNCHANGED <<sessions, sessVars, procVars, diskVars, db, events, lockVars, calls, faults>>

\* resume_session, lines 162-164: only a Paused session is resumed
ResumeSession_Check(t) ==
    /\ task[t].pc = "resume_check"
    /\ IF status[task[t].id] # "Paused"
       THEN Released(t) /\ Return(t, "NotPaused", None)
       ELSE Goto(t, "resume_spawn") /\ UNCHANGED readers
    /\ UNCHANGED <<sessions, sessVars, procVars, diskVars, db, events, waitq, calls, faults>>

\* resume_session, lines 167-172: a new child is spawned and its handle
\* stored over whatever the session held (a Child that is dropped lives on)
ResumeSession_Spawn(t, ok) ==
    LET id == task[t].id
    IN  /\ task[t].pc = "resume_spawn"
        /\ IF SpawnSucceeds(id, ok)
           THEN /\ Spawned(id)
                /\ process' = [process EXCEPT ![id] = NewChild]
                /\ Goto(t, "resume_status")
                /\ UNCHANGED readers
           ELSE /\ Released(t)
                /\ Return(t, "SpawnFailed", None)
                /\ UNCHANGED <<process, procVars>>
        /\ Faulty(ok, TRUE)
        /\ UNCHANGED <<sessions, status, output_buffer, error_message, config,
                       worktree, diskVars, db, events, waitq, calls>>

\* resume_session, line 173: session.set_status(Running)
ResumeSession_Status(t) ==
    /\ task[t].pc = "resume_status"
    /\ status' = [status EXCEPT ![task[t].id] = "Running"]
    /\ Goto(t, "resume_db")
    /\ UNCHANGED <<sessions, process, output_buffer, error_message, config,
                   worktree, procVars, diskVars, db, events, lockVars, calls, faults>>

\* resume_session, lines 174-177
ResumeSession_Db(t, ok) ==
    /\ task[t].pc = "resume_db"
    /\ db' = IF ok THEN update_session_status_in_db(task[t].id, "Running") ELSE db
    /\ Released(t)
    /\ Return(t, IF ok THEN "Ok" ELSE "PersistFailed", None)
    /\ Faulty(ok, TRUE)
    /\ UNCHANGED <<sessions, sessVars, procVars, diskVars, events, waitq, calls>>

resume_session(t) ==
    \/ ResumeSession_Lock(t)
    \/ ResumeSession_Check(t)
    \/ \E ok \in BOOLEAN : ResumeSession_Spawn(t, ok)
    \/ ResumeSession_Status(t)
    \/ \E ok \in BOOLEAN : ResumeSession_Db(t, ok)

\* get_session_diff, lines 203-205
GetSessionDiff_Lock(t) ==
    /\ task[t].pc = "diff_lock"
    /\ ReadGranted(t)
    /\ waitq' = Dequeued(t)
    /\ IF task[t].id \in sessions
       THEN Acquired(t) /\ Goto(t, "diff_stats")
       ELSE Return(t, "NotFound", None) /\ UNCHANGED readers
    /\ UNCHANGED <<sessions, sessVars, procVars, diskVars, db, events, calls, faults>>

\* get_session_diff, lines 207-214: get_diff_stats in the working copy, then
\* the return drops the local GitWorktree
GetSessionDiff_Stats(t, rm) ==
    LET id == task[t].id
    IN  /\ task[t].pc = "diff_stats"
        /\ Drop(worktree[id], rm)
        /\ Released(t)
        /\ Return(t, IF WorktreeDirExists(id) THEN "Ok" ELSE "VcsDiffFailed", Removed(rm))
        /\ Faulty(TRUE, rm)
        /\ UNCHANGED <<sessions, sessVars, procVars, db, events, waitq, calls>>

get_session_diff(t) ==
    \/ GetSessionDiff_Lock(t)
    \/ \E rm \in BOOLEAN : GetSessionDiff_Stats(t, rm)

\* Vec<String>::join("\n")
RECURSIVE Join(_)
Join(ls) ==
    IF ls = << >> THEN << >>
    ELSE IF Len(ls) = 1 THEN ls[1]
    ELSE ls[1] \o <<"\n">> \o Join(Tail(ls))

\* the lines of the preview kept by Session::to_info
PreviewLines == 5

\* Session::to_info; created_at is the order of allocation
to_info(id) ==
    [id |-> id,
     status |-> status[id],
     auto_yes |-> config[id].auto_yes,
     output_preview |-> Join(get_output_preview(output_buffer[id], PreviewLines)),
     created_at |-> id[2]]

\* infos.sort_by(|a, b| b.created_at.cmp(&a.created_at))
RECURSIVE SortByCreatedDesc(_)
SortByCreatedDesc(infos) ==
    IF infos = << >> THEN << >>
    ELSE LET i == CHOOSE i \in DOMAIN infos :
                      \A j \in DOMAIN infos :
                          \/ infos[j].created_at < infos[i].created_at
                          \/ (infos[j].created_at = infos[i].created_at /\ i <= j)
             rest == [k \in 1..(Len(infos) - 1) |-> IF k < i THEN infos[k] ELSE infos[k + 1]]
         IN  <<infos[i]>> \o SortByCreatedDesc(rest)

\* list_active_sessions, line 217: the read guard held over the whole loop
ListActiveSessions_Lock(t) ==
    /\ task[t].pc = "list_lock"
    /\ ReadGranted(t)
    /\ waitq' = Dequeued(t)
    /\ Acquired(t)
    /\ task' = [task EXCEPT ![t].pc = "list_diff", ![t].todo = sessions, ![t].infos = << >>]
    /\ UNCHANGED <<sessions, sessVars, procVars, diskVars, db, events, calls, faults>>

\* list_active_sessions, lines 220-223, one session of sessions.values():
\* get_session_diff takes the read lock again, computes the stats and drops
\* its GitWorktree; then to_info is pushed
ListActiveSessions_Diff(t, id, rm) ==
    /\ task[t].pc = "list_diff"
    /\ id \in task[t].todo
    /\ ReadGranted(t)
    /\ waitq' = Dequeued(t)
    /\ Drop(worktree[id], rm)
    /\ task' = [task EXCEPT ![t].todo = @ \ {id},
                            ![t].infos = Append(@, to_info(id)),
                            ![t].removed = Removed(rm)]
    /\ Faulty(TRUE, rm)
    /\ UNCHANGED <<sessions, sessVars, procVars, db, events, readers, calls>>

\* list_active_sessions, lines 225-227: sort, release, return
ListActiveSessions_Finish(t) ==
    /\ task[t].pc = "list_diff"
    /\ task[t].todo = {}
    /\ Released(t)
    /\ IF t = Responder
       THEN task' = [task EXCEPT ![t].pc = "check", ![t].infos = SortByCreatedDesc(@)]
       ELSE Return(t, "Ok", task[t].removed)
    /\ UNCHANGED <<sessions, sessVars, procVars, diskVars, db, events, waitq, calls, faults>>

list_active_sessions(t) ==
    \/ ListActiveSessions_Lock(t)
    \/ \E id \in task[t].todo, rm \in BOOLEAN : ListActiveSessions_Diff(t, id, rm)
    \/ ListActiveSessions_Finish(t)

\* send_input, lines 180-182
SendInput_Lock(t) ==
    /\ task[t].pc = "input_lock"
    /\ ReadGranted(t)
    /\ waitq' = Dequeued(t)
    /\ IF task[t].id \in sessions
       THEN Acquired(t) /\ Goto(t, "input_write")
       ELSE Return(t, "NotFound", None) /\ UNCHANGED readers
    /\ UNCHANGED <<sessions, sessVars, procVars, diskVars, db, events, calls, faults>>

SendInput_Write_Blind(t, ok) ==
    /\ task[t].pc = "input_write"
    /\ ok
    /\ Return(t, "Ok", None)
    /\ Released(t)
    /\ Faulty(ok, TRUE)
    /\ UNCHANGED <<sessions, sessVars, procVars, diskVars, db, events, waitq, calls>>

\* send_input, lines 184-192, with ProcessManager::send_input: the text and
\* a newline are written to the child's stdin (ok: the write succeeded)
SendInput_Write(t, ok) ==
    LET id == task[t].id
        c == process[id]
    IN  /\ task[t].pc = "input_write"
        /\ IF c = NoChild
           THEN /\ ok
                /\ Return(t, "NotRunning", None)
                /\ UNCHANGED children
           ELSE IF ok
           THEN /\ children' = [children EXCEPT ![c].stdin =
                                    Append(@, task[t].input \o <<"\n">>)]
                /\ Return(t, "Ok", None)
           ELSE /\ Return(t, "InputFailed", None)
                /\ UNCHANGED children
        /\ Released(t)
        /\ Faulty(ok, TRUE)
        /\ UNCHANGED <<sessions, sessVars, stdout_pump, stderr_pump, diskVars, db,
                       events, waitq, calls>>

send_input(t) ==
    \/ SendInput_Lock(t)
    \/ \E ok \in BOOLEAN : SendInput_Write(t, ok)

\* update_session_config, lines 234-236, called with a config whose auto_yes
\* is new
UpdateSessionConfig_Lock(t, new) ==
    /\ task[t].pc = "config_lock"
    /\ ReadGranted(t)
    /\ waitq' = Dequeued(t)
    /\ IF task[t].id \in sessions
       THEN /\ Acquired(t)
            /\ task' = [task EXCEPT ![t].pc = "config_db", ![t].auto_yes = new]
       ELSE /\ Return(t, "NotFound", None)
            /\ UNCHANGED readers
    /\ UNCHANGED <<sessions, sessVars, procVars, diskVars, db, events, calls, faults>>

\* update_session_config, lines 240-252: auto_yes is set in a clone of the
\* session's config, which is then dropped, and in the row of the session
UpdateSessionConfig_Db(t, ok) ==
    LET id == task[t].id
        current_config == [config[id] EXCEPT !.auto_yes = task[t].auto_yes]
    IN  /\ task[t].pc = "config_db"
        /\ db' = IF ok THEN [db EXCEPT ![id].auto_yes = current_config.auto_yes] ELSE db
        /\ Released(t)
        /\ Return(t, IF ok THEN "Ok" ELSE "PersistFailed", None)
        /\ Faulty(ok, TRUE)
        /\ UNCHANGED <<sessions, sessVars, procVars, diskVars, events, waitq, calls>>

update_session_config(t) ==
    \/ \E new \in BOOLEAN : UpdateSessionConfig_Lock(t, new)
    \/ \E ok \in BOOLEAN : UpdateSessionConfig_Db(t, ok)

\* get_session_output, lines 195-197, called for so many lines
GetSessionOutput_Lock(t, lines) ==
    /\ task[t].pc = "output_lock"
    /\ ReadGranted(t)
    /\ waitq' = Dequeued(t)
    /\ IF task[t].id \in sessions
       THEN /\ Acquired(t)
            /\ task' = [task EXCEPT ![t].pc = "output_preview", ![t].lines = lines]
       ELSE /\ Return(t, "NotFound", None)
            /\ UNCHANGED readers
    /\ UNCHANGED <<sessions, sessVars, procVars, diskVars, db, events, calls, faults>>

\* get_session_output, line 199: the last lines of the buffer
GetSessionOutput_Preview(t) ==
    /\ task[t].pc = "output_preview"
    /\ task' = [task EXCEPT ![t] =
           [Idle EXCEPT !.pc = "returned", !.op = task[t].op, !.id = task[t].id,
                        !.res = "Ok", !.lines = task[t].lines,
                        !.out = get_output_preview(output_buffer[task[t].id],
                                                   task[t].lines)]]
    /\ Released(t)
    /\ UNCHANGED <<sessions, sessVars, procVars, diskVars, db, events, waitq, calls, faults>>

get_session_output(t, ns) ==
    \/ \E lines \in ns : GetSessionOutput_Lock(t, lines)
    \/ GetSessionOutput_Preview(t)

\* --------------------------------------------------------- AutoYesManager
Str_continue == <<"c","o","n","t","i","n","u","e">>
Str_proceed == <<"p","r","o","c","e","e","d">>
Str_yes_no == <<"y","e","s","/","n","o">>
Str_y_n == <<"y","/","n">>
Str_press_enter == <<"p","r","e","s","s"," ","e","n","t","e","r"," ","t","o"," ",
                     "c","o","n","t","i","n","u","e">>
Str_would_you == <<"w","o","u","l","d"," ","y","o","u"," ","l","i","k","e"," ","t","o">>
Str_is_correct == <<"i","s"," ","t","h","i","s"," ","c","o","r","r","e","c","t">>
Str_yes == <<"y","e","s">>

\* \s
WhiteSpace == {" ", "\t", "\n", "\r", "\f"}
AllSpace(s) == \A i \in DOMAIN s : s[i] \in WhiteSpace

\* \s*[?:]?\s*$ on what follows the word
PromptTail(r) ==
    \/ AllSpace(r)
    \/ \E k \in DOMAIN r :
           /\ r[k] \in {"?", ":"}
           /\ AllSpace(SubSeq(r, 1, k - 1))
           /\ AllSpace(SubSeq(r, k + 1, Len(r)))

\* (?i)(continue|proceed|yes/no|y/n)\s*[?:]?\s*$
GeneralPrompt(line) ==
    LET l == Lower(line)
    IN  \E w \in {Str_continue, Str_proceed, Str_yes_no, Str_y_n}, i \in DOMAIN l :
            /\ OccursAt(l, w, i)
            /\ PromptTail(SubSeq(l, i + Len(w), Len(l)))

\* AutoYesManager::new: the patterns, in order, with their responses
NumPatterns == 4
PatternMatches(k, line) ==
    CASE k = 1 -> GeneralPrompt(line)
      [] k = 2 -> Contains(Lower(line), Str_press_enter)
      [] k = 3 -> Contains(Lower(line), Str_would_you)
      [] k = 4 -> Contains(Lower(line), Str_is_correct)
PatternResponse(k) == IF k = 2 THEN << >> ELSE Str_yes

\* str::lines: split at "\n", a final empty piece is no line, a trailing
\* "\r" is no part of a line
RECURSIVE SplitNewline(_, _)
SplitNewline(s, cur) ==
    IF s = << >> THEN <<cur>>
    ELSE IF Head(s) = "\n" THEN <<cur>> \o SplitNewline(Tail(s), << >>)
    ELSE SplitNewline(Tail(s), Append(cur, Head(s)))
StripCR(l) == IF l # << >> /\ l[Len(l)] = "\r" THEN SubSeq(l, 1, Len(l) - 1) ELSE l
Lines(s) ==
    LET ps == SplitNewline(s, << >>)
        ls == IF ps[Len(ps)] = << >> THEN SubSeq(ps, 1, Len(ps) - 1) ELSE ps
    IN  [i \in DOMAIN ls |-> StripCR(ls[i])]

\* the lines detect_prompt looks at
RecentLines == 5

\* AutoYesManager::detect_prompt: the last lines, the most recent first; the
\* first line that some pattern matches decides, by its first pattern.
\* [line, pattern], or pattern 0 when nothing matches
detect_prompt(output) ==
    LET lines == Lines(output)
        n == IF Len(lines) < RecentLines THEN Len(lines) ELSE RecentLines
        recent == [i \in 1..n |-> lines[Len(lines) - i + 1]]
        hits == {i \in 1..n : \E k \in 1..NumPatterns : PatternMatches(k, recent[i])}
    IN  IF hits = {} THEN [line |-> << >>, pattern |-> 0]
        ELSE LET i == CHOOSE i \in hits : \A j \in hits : i <= j
             IN  [line |-> recent[i],
                  pattern |-> CHOOSE k \in 1..NumPatterns :
                                  /\ PatternMatches(k, recent[i])
                                  /\ \A m \in 1..(k - 1) : ~PatternMatches(m, recent[i])]

Str_delete == <<"d","e","l","e","t","e">>
Str_remove == <<"r","e","m","o","v","e">>
Str_force == <<"f","o","r","c","e">>
Str_overwrite == <<"o","v","e","r","w","r","i","t","e">>
Str_destructive == <<"d","e","s","t","r","u","c","t","i","v","e">>
Str_permanent == <<"p","e","r","m","a","n","e","n","t">>
Str_cannot_undone == <<"c","a","n","n","o","t"," ","b","e"," ","u","n","d","o","n","e">>
Str_are_you_sure == <<"a","r","e"," ","y","o","u"," ","s","u","r","e">>
DangerousPatterns == {Str_delete, Str_remove, Str_force, Str_overwrite, Str_destructive,
                      Str_permanent, Str_cannot_undone, Str_are_you_sure}

\* AutoYesManager::is_safe_prompt
is_safe_prompt_CaseSensitive(output) == \A d \in DangerousPatterns : ~Contains(output, d)
is_safe_prompt(output) == \A d \in DangerousPatterns : ~Contains(Lower(output), d)

\* a call of AutoYesManager::is_safe_prompt(&text) on the text the task holds
IsSafePrompt(t) ==
    /\ task[t].pc = "idle"
    /\ task' = [task EXCEPT ![t].pc = "returned", ![t].op = "is_safe_prompt",
                            ![t].res = IF is_safe_prompt(task[t].input)
                                       THEN "true" ELSE "false"]
    /\ UNCHANGED <<sessions, sessVars, procVars, diskVars, db, events, lockVars,
                   calls, faults>>

\* start_monitoring, lines 73-76: the ticker fires and check_all_sessions
\* begins with list_active_sessions
Responder_Tick ==
    /\ task[Responder].pc = "idle"
    /\ calls.ticks < MaxTicks
    /\ calls' = [calls EXCEPT !.ticks = @ + 1]
    /\ task' = [task EXCEPT ![Responder] = [Idle EXCEPT !.pc = "list_lock", !.op = "tick"]]
    /\ UNCHANGED <<sessions, sessVars, procVars, diskVars, db, events, lockVars, faults>>

\* the message shutdown_rx.recv() returns: the receiver is a subscription of
\* the event bus made when the daemon starts (manager.rs:300), so it is the
\* first event sent since
Received == Head(events)

\* start_monitoring, lines 77-79: shutdown_rx.recv() completes and the loop
\* breaks
Responder_Recv ==
    /\ task[Responder].pc = "idle"
    /\ events # << >>
    /\ task' = [task EXCEPT ![Responder].pc = "stopped"]
    /\ UNCHANGED <<sessions, sessVars, procVars, diskVars, db, events, lockVars,
                   calls, faults>>

Responder_Check_All ==
    LET t == Responder
        info == Head(task[t].infos)
        prompt == detect_prompt(info.output_preview)
    IN  /\ task[t].pc \in {"check", "returned"}
        /\ task[t].infos # << >>
        /\ IF task[t].pc = "returned"
           THEN task' = [task EXCEPT ![t].pc = "check", ![t].infos = Tail(@)]
           ELSE IF info.status = "Ready" /\ prompt.pattern # 0
           THEN task' = [task EXCEPT ![t].pc = "input_lock", ![t].id = info.id,
                                     ![t].input = PatternResponse(prompt.pattern)]
           ELSE task' = [task EXCEPT ![t].infos = Tail(@)]
        /\ UNCHANGED <<sessions, sessVars, procVars, diskVars, db, events, lockVars,
                       calls, faults>>

\* check_all_sessions, lines 87-102, one session_info of the snapshot
Responder_Check ==
    LET t == Responder
        info == Head(task[t].infos)
        prompt == detect_prompt(info.output_preview)
    IN  /\ task[t].pc \in {"check", "returned"}
        /\ task[t].infos # << >>
        /\ IF task[t].pc = "returned"
           THEN task' = [task EXCEPT ![t].pc = "check", ![t].infos = Tail(@)]
           ELSE IF info.auto_yes /\ info.status = "Ready" /\ prompt.pattern # 0
           THEN task' = [task EXCEPT ![t].pc = "input_lock", ![t].id = info.id,
                                     ![t].input = PatternResponse(prompt.pattern)]
           ELSE task' = [task EXCEPT ![t].infos = Tail(@)]
        /\ UNCHANGED <<sessions, sessVars, procVars, diskVars, db, events, lockVars,
                       calls, faults>>

\* check_all_sessions returns: the loop waits for the next tick
Responder_Done ==
    /\ task[Responder].pc = "check"
    /\ task[Responder].infos = << >>
    /\ task' = [task EXCEPT ![Responder] = Idle]
    /\ UNCHANGED <<sessions, sessVars, procVars, diskVars, db, events, lockVars,
                   calls, faults>>

\* --------------------------------------------------------- specification
\* Lifecycle: two callers creating and terminating sessions while the
\* children write to stdout.
LifecycleOps == {"create", "terminate"}

\* the ids a caller can pass: those of the sessions allocated so far
CallOf(t, ops, max) ==
    \E op \in ops, id \in Allocated \cup {NoId} :
        /\ (op \in {"create", "list_active"}) <=> (id = NoId)
        /\ Call(t, op, id, max)

\* create and terminate hold no guard of the registry across a step, so no
\* caller ever has to queue for it here
Caller(t) ==
    \/ CallOf(t, LifecycleOps, MaxCalls)
    \/ Returned(t)
    \/ create_session(t, Configs, Prefixes)
    \/ terminate_session(t)

Pump(c) ==
    \/ \E line \in StdoutLines : StdoutPump_Line(c, line, MaxLines)
    \/ StdoutPump_Output(c)

Next ==
    \/ \E t \in Callers : Caller(t)
    \/ \E c \in DOMAIN children : Pump(c)

Spec == Init /\ [][Next]_vars

\* Pausing: two callers creating, pausing and resuming sessions.
PauseOps == {"create", "pause", "resume"}

PauseCaller(t) ==
    \/ CallOf(t, PauseOps, MaxCalls)
    \/ Returned(t)
    \/ LockWait(t)
    \/ create_session(t, Configs, {1})
    \/ pause_session(t)
    \/ resume_session(t)

NextPause ==
    \/ \E t \in Callers : PauseCaller(t)
    \/ \E c \in DOMAIN children : Pump(c)

SpecPause == Init /\ [][NextPause]_vars

\* Pumps: one caller creating, pausing and resuming a session whose children
\* write several lines to stdout and stderr.
PumpCaller(t) ==
    \/ CallOf(t, PauseOps, MaxPumpCalls)
    \/ Returned(t)
    \/ create_session(t, {DirConfig}, {1})
    \/ pause_session(t)
    \/ resume_session(t)

PumpOf(c) ==
    \/ \E line \in StdoutLines : StdoutPump_Line(c, line, MaxPumpLines)
    \/ StdoutPump_Output(c)
    \/ \E line \in StderrLines : StderrPump_Line(c, line, MaxErrLines)

NextPump ==
    \/ PumpCaller("t1")
    \/ \E c \in DOMAIN children : PumpOf(c)

SpecPump == Init /\ [][NextPump]_vars

\* Responder: one caller creating sessions, with or without auto_yes, whose
\* children print prompts, and the auto-responder polling them.
Line_Continue == <<"C","o","n","t","i","n","u","e","?">>
Line_DeleteParen == <<"D","e","l","e","t","e"," ","a","l","l"," ","f","i","l","e","s","?",
                      " ","(","y","/","n",")">>
Line_Delete == <<"D","e","l","e","t","e"," ","a","l","l"," ","f","i","l","e","s","?",
                 " ","y","/","n">>
PromptLines == {Line_Ready, Line_Continue, Line_DeleteParen, Line_Delete}
AutoYesConfig == [DefaultConfig EXCEPT !.auto_yes = TRUE]

ResponderCaller(t) ==
    \/ CallOf(t, {"create"}, MaxResponderCalls)
    \/ Returned(t)
    \/ LockWait(t)
    \/ create_session(t, {DefaultConfig, AutoYesConfig}, {1})

ResponderPump(c) ==
    \/ \E line \in PromptLines : StdoutPump_Line(c, line, MaxResponderLines)
    \/ StdoutPump_Output(c)

AutoYes ==
    \/ Responder_Tick
    \/ Responder_Recv
    \/ LockWait(Responder)
    \/ list_active_sessions(Responder)
    \/ Responder_Check
    \/ send_input(Responder)
    \/ Responder_Done

NextResponder ==
    \/ ResponderCaller("t1")
    \/ \E c \in DOMAIN children : ResponderPump(c)
    \/ AutoYes

SpecResponder == Init /\ [][NextResponder]_vars

\* Session operations: one caller using every operation of the manager on
\* sessions whose children report that they are done.
Line_Done == <<"D","o","n","e">>
SessionOps == {"create", "pause", "resume", "send_input", "update_config",
               "get_output", "list_active"}

SessionCaller(t) ==
    \/ CallOf(t, SessionOps, MaxSessionCalls)
    \/ Returned(t)
    \/ create_session(t, {DirConfig}, {1})
    \/ pause_session(t)
    \/ resume_session(t)
    \/ send_input(t)
    \/ update_session_config(t)
    \/ get_session_output(t, 0..MaxPreview)
    \/ list_active_sessions(t)

SessionPump(c) ==
    \/ StdoutPump_Line(c, Line_Done, MaxLines)
    \/ StdoutPump_Output(c)

NextSession ==
    \/ SessionCaller("t1")
    \/ \E c \in DOMAIN children : SessionPump(c)

SpecSession == Init /\ [][NextSession]_vars

\* Output buffer: one caller creating sessions with small buffers and reading
\* their output while the children write lines without a status token.
Line_a == <<"a">>
Line_b == <<"b">>
BufferLines == {Line_a, Line_b}
BufferConfigs == {[DefaultConfig EXCEPT !.max_output_buffer = cap] : cap \in 0..MaxCap}

BufferCaller(t) ==
    \/ CallOf(t, {"create", "get_output"}, MaxBufferCalls)
    \/ Returned(t)
    \/ create_session(t, BufferConfigs, {1})
    \/ get_session_output(t, 0..MaxPreview)

BufferPump(c) ==
    \/ \E line \in BufferLines : StdoutPump_Line(c, line, MaxAppends)
    \/ StdoutPump_Output(c)

NextBuffer ==
    \/ BufferCaller("t1")
    \/ \E c \in DOMAIN children : BufferPump(c)

SpecBuffer == Init /\ [][NextBuffer]_vars

\* Errors: one caller creating sessions whose children write to stderr, with
\* and without the tokens of a critical error, and report Ready on stdout.
Line_Denied == <<"s","h",":"," ">> \o Str_PermDenied
Line_warn == <<"w","a","r","n">>
ErrorLines == {Line_FATAL, Line_Denied, Line_warn}

ErrorCaller(t) ==
    \/ CallOf(t, {"create"}, MaxStderrCalls)
    \/ Returned(t)
    \/ create_session(t, Configs, {1})

ErrorPump(c) ==
    \/ StdoutPump_Line(c, Line_Ready, MaxLines)
    \/ StdoutPump_Output(c)
    \/ \E line \in ErrorLines : StderrPump_Line(c, line, MaxStderrLines)

NextError ==
    \/ ErrorCaller("t1")
    \/ \E c \in DOMAIN children : ErrorPump(c)

SpecError == Init /\ [][NextError]_vars

\* Event bus: one caller creating a session whose child writes to stdout,
\* and the host's forwarding tasks subscribing and receiving at any time.
BusCaller(t) ==
    \/ CallOf(t, {"create"}, MaxBusCalls)
    \/ Returned(t)
    \/ create_session(t, {DirConfig}, {1})

BusPump(c) ==
    \/ \E line \in StdoutLines : StdoutPump_Line(c, line, MaxBusLines)
    \/ StdoutPump_Output(c)

NextBus ==
    \/ BusCaller("t1")
    \/ \E c \in DOMAIN children : BusPump(c)
    \/ \E u \in Subscribers : Subscribe(u) \/ Forward(u)

SpecBus == Init /\ [][NextBus]_vars

\* Safety guard: is_safe_prompt called on texts that hold a dangerous word in
\* lower, upper or mixed case, a word cut short, or none, between other text.
ToUpper(c) ==
    IF \E i \in DOMAIN LowerCase : LowerCase[i] = c
    THEN UpperCase[CHOOSE i \in DOMAIN LowerCase : LowerCase[i] = c]
    ELSE c
Upper(s) == [i \in DOMAIN s |-> ToUpper(s[i])]
Capitalised(s) == <<ToUpper(Head(s))>> \o Tail(s)
CutShort(s) == SubSeq(s, 1, Len(s) - 1)
SafeWords ==
    UNION {{d, Upper(d), Capitalised(d), CutShort(d)} : d \in DangerousPatterns}
        \cup {Line_Continue, Line_ok, << >>}
SafeTexts ==
    {pre \o w \o post : pre \in {<< >>, <<"x", " ">>}, w \in SafeWords,
                        post \in {<< >>, <<"?">>}}

InitSafe ==
    /\ sessions = {}
    /\ status = << >>
    /\ process = << >>
    /\ output_buffer = << >>
    /\ error_message = << >>
    /\ config = << >>
    /\ worktree = << >>
    /\ children = << >>
    /\ stdout_pump = << >>
    /\ stderr_pump = << >>
    /\ worktrees = {}
    /\ branches = {}
    /\ db = << >>
    /\ events = << >>
    /\ readers = [t \in Tasks |-> 0]
    /\ waitq = << >>
    /\ \E text \in SafeTexts :
           task = [t \in Tasks \cup Subscribers |->
                      IF t = "t1" THEN [Idle EXCEPT !.input = text] ELSE Idle]
    /\ calls = [ops |-> 0, ticks |-> 0]
    /\ faults = [op |-> 0, remove |-> 0]

NextSafe == IsSafePrompt("t1")

SpecSafe == InitSafe /\ [][NextSafe]_vars

\* Listing: two callers creating, terminating and listing sessions, each
\* queueing for the registry lock when it is not granted.
ListCaller(t) ==
    \/ CallOf(t, {"create", "terminate", "list_active"}, MaxListCalls)
    \/ Returned(t)
    \/ LockWait(t)
    \/ create_session(t, {DirConfig}, {1})
    \/ terminate_session(t)
    \/ list_active_sessions(t)

NextList == \E t \in Callers : ListCaller(t)

SpecList == Init /\ [][NextList]_vars

\* ------------------------------------------------------------------ claims
SessionsOf(type) ==
    {events[i].session_id : i \in {j \in DOMAIN events : events[j].type = type}}

\* C1: the number of sessions in the registry never exceeds
\* max_concurrent_sessions, whatever the interleaving of create and terminate.
C1_CapacityRespected == Cardinality(sessions) <= max_concurrent_sessions

\* C2: the auto-responder never writes a reply to a child's stdin when the
\* prompt line it matched contains a dangerous substring.
C2_NoReplyToDangerousPrompt ==
    [][\A c \in DOMAIN children :
          children'[c].stdin # children[c].stdin =>
              is_safe_prompt(detect_prompt(Head(task[Responder].infos).output_preview).line)
      ]_vars

\* C3: while a session is in the registry its workspace exists.
C3_WorkspaceOfRegistered == \A id \in sessions : WorktreeDirExists(id)

\* C4: every change of a session's status comes with exactly one StatusChanged
\* event carrying the session id and the new status.
C4_StatusChangeHasEvent ==
    [][\A id \in DOMAIN status :
          status'[id] # status[id] =>
              /\ Len(events') = Len(events) + 1
              /\ events'[Len(events')].type = "StatusChanged"
              /\ events'[Len(events')].session_id = id
              /\ events'[Len(events')].status = status'[id]
      ]_vars

\* C5: SessionCreated of a session is on the bus before any OutputAppended,
\* StatusChanged or Error event of that session.
C5_CreatedFirst ==
    \A i \in DOMAIN events :
        events[i].type \in {"OutputAppended", "StatusChanged", "Error"} =>
            \E j \in 1..(i - 1) :
                /\ events[j].type = "SessionCreated"
                /\ events[j].session_id = events[i].session_id

\* what the stdout pump sends for one line
Expected(c, line) ==
    LET id == children[c].session
        s == detect_status_from_output(line)
    IN  (IF s # None THEN <<Event("StatusChanged", id, s, << >>, c)>> ELSE << >>)
        \o <<Event("OutputAppended", id, None, line, c)>>

RECURSIVE ExpectedAll(_, _)
ExpectedAll(c, lines) ==
    IF lines = << >> THEN << >>
    ELSE Expected(c, Head(lines)) \o ExpectedAll(c, Tail(lines))

RECURSIVE IsSubSeq(_, _)
IsSubSeq(a, b) ==
    IF a = << >> THEN TRUE
    ELSE IF b = << >> THEN FALSE
    ELSE IF Head(a) = Head(b) THEN IsSubSeq(Tail(a), Tail(b))
    ELSE IsSubSeq(a, Tail(b))

IsPrefix(a, b) == Len(a) <= Len(b) /\ SubSeq(b, 1, Len(a)) = a

IsStdoutEvent(e) == e.type \in {"StatusChanged", "OutputAppended"}
Texts(es) == [i \in DOMAIN es |-> es[i].text]

\* the lines whose OutputAppended the pump of child c has sent, in bus order
OutputsOfChild(c) ==
    Texts(SelectSeq(events, LAMBDA e : e.type = "OutputAppended" /\ e.src = c))
\* the same for all pumps of a session
OutputsOfSession(id) ==
    Texts(SelectSeq(events, LAMBDA e : e.type = "OutputAppended" /\ e.session_id = id))
\* the line the pump of c has read and not yet announced
InFlight(c) == IF stdout_pump[c].pc = "output" THEN <<stdout_pump[c].line>> ELSE << >>
\* the stdout lines of a session's buffer, in the order they were read
StdoutRead(id) ==
    SelectSeq(output_buffer[id], LAMBDA l : ~IsPrefix(Str_ErrorPrefix, l))

\* per pump: every line read is followed by StatusChanged (when it carries a
\* token) and then OutputAppended, nothing else, in the order of reading
C6_PumpEvents(c) ==
    LET sent == SelectSeq(events, LAMBDA e : IsStdoutEvent(e) /\ e.src = c)
        pending == IF InFlight(c) = << >> THEN << >>
                   ELSE SubSeq(Expected(c, stdout_pump[c].line), 1,
                               Len(Expected(c, stdout_pump[c].line)) - 1)
    IN  /\ sent = ExpectedAll(c, OutputsOfChild(c)) \o pending
        /\ Len(OutputsOfChild(c)) + Len(InFlight(c)) = stdout_pump[c].n
        /\ IsSubSeq(OutputsOfChild(c) \o InFlight(c), StdoutRead(children[c].session))

\* a line read sets the status to the mapped one, or leaves it when the line
\* has no token
C6_StatusOfLine ==
    \A c \in DOMAIN children :
        stdout_pump'[c].n # stdout_pump[c].n =>
            LET id == children[c].session
                s == detect_status_from_output(stdout_pump'[c].line)
            IN  status'[id] = IF s # None THEN s ELSE status[id]

\* C6 (amended): for every stdout line read by a pump, StatusChanged with the
\* mapped status (when the line has a token) and then OutputAppended are sent,
\* once each; a line with no token changes no status; the OutputAppended
\* events of one pump appear in the order that pump read the lines.
C6_PerPumpOrder ==
    /\ [](\A c \in DOMAIN children : C6_PumpEvents(c))
    /\ [][C6_StatusOfLine]_vars

\* C6 (original): ... and across all lines of one session the OutputAppended
\* events appear in the order the lines were read.
C6_PerSessionOrder ==
    /\ \A c \in DOMAIN children : C6_PumpEvents(c)
    /\ \A id \in Allocated : IsPrefix(OutputsOfSession(id), StdoutRead(id))

\* C6 witness: one pump has read a line with a token and then a line with none
C6_Witness ==
    \E c \in DOMAIN children :
        /\ OutputsOfChild(c) = <<Line_Ready, Line_ok>>
        /\ status[children[c].session] = "Ready"

\* the children of a session that are alive
LiveChildren(id) == {c \in DOMAIN children : children[c].session = id /\ children[c].alive}

\* C7: a registered session whose status is Paused has no child handle.
C7_PausedHasNoChild ==
    \A id \in sessions : status[id] = "Paused" => process[id] = NoChild

\* C8: a registered session never has two live children, and has exactly one,
\* with its handle, unless it is Paused or Initializing.
C8_OneChild ==
    \A id \in sessions :
        /\ Cardinality(LiveChildren(id)) <= 1
        /\ status[id] \notin {"Paused", "Initializing"} =>
               /\ Cardinality(LiveChildren(id)) = 1
               /\ process[id] # NoChild

\* K creates have succeeded and none of their sessions was terminated
CapReached ==
    /\ Cardinality(SessionsOf("SessionCreated")) >= max_concurrent_sessions
    /\ SessionsOf("SessionCreated") \subseteq sessions

\* C9: after K successful creates with cap K and no terminate, the next create
\* returns AtCapacity and creates no workspace, spawns no child, writes no row,
\* sends no event and leaves the registry as it is.
C9_AtCapacity ==
    [][\A t \in Callers :
          (task[t].pc = "create_check" /\ task'[t] # task[t] /\ CapReached) =>
              /\ task'[t].pc = "returned"
              /\ task'[t].res = "AtCapacity"
              /\ UNCHANGED <<sessions, sessVars, procVars, diskVars, db, events>>
      ]_vars

\* C9 witness: a create has been turned away at the cap
C9_Witness ==
    \E t \in Callers :
        /\ task[t].pc = "returned"
        /\ task[t].res = "AtCapacity"
        /\ CapReached

\* create returns an error of workspace creation, persistence or spawn
CreateFails(t) ==
    /\ task[t].op = "create"
    /\ task[t].pc # "returned"
    /\ task'[t].pc = "returned"
    /\ task'[t].res \in {"VcsCreateFailed", "PersistFailed", "SpawnFailed"}

NotCreated(id) ==
    /\ id \notin sessions'
    /\ id \notin {events'[i].session_id :
                     i \in {j \in DOMAIN events' : events'[j].type = "SessionCreated"}}

\* C10 (original): when create returns an error, the session is not in the
\* registry, no SessionCreated was sent for it and its workspace does not exist.
C10_FailedCreateLeavesNothing ==
    [][\A t \in Callers :
          CreateFails(t) =>
              /\ NotCreated(task[t].id)
              /\ GitWorktree_new(task[t].id).worktree_path \notin worktrees'
      ]_vars

\* C10 (amended): when create returns an error, the session is not in the
\* registry, no SessionCreated was sent for it, and its workspace does not
\* exist unless the removal run by the destructor of the worktree failed.
C10_FailedCreateRemoves ==
    [][\A t \in Callers :
          CreateFails(t) =>
              /\ NotCreated(task[t].id)
              /\ task'[t].removed = "ok" =>
                     GitWorktree_new(task[t].id).worktree_path \notin worktrees'
      ]_vars

\* C10 witness: a create whose persistence or spawn failed has returned after
\* its workspace was made and removed again
C10_Witness ==
    \E t \in Callers :
        /\ task[t].pc = "returned"
        /\ task[t].op = "create"
        /\ task[t].res \in {"PersistFailed", "SpawnFailed"}
        /\ task[t].removed = "ok"
        /\ GitWorktree_new(task[t].id).branch_name \notin branches

\* the SessionTerminated events of a session
Terminations(id) ==
    {i \in DOMAIN events :
        events[i].type = "SessionTerminated" /\ events[i].session_id = id}

\* the steps of terminate_session, each with what it has and has not done
C11_Steps ==
    \A t \in Callers :
        LET id == task[t].id
            pc == task[t].pc
            pc2 == task'[t].pc
        IN  /\ (pc = "terminate_remove" /\ pc2 = "terminate_process") =>
                   /\ id \in sessions /\ sessions' = sessions \ {id}
                   /\ UNCHANGED <<sessVars, procVars, diskVars, db, events>>
            /\ (pc = "terminate_remove" /\ pc2 = "returned") =>
                   /\ id \notin sessions
                   /\ task'[t].res = "NotFound"
                   /\ UNCHANGED <<sessions, sessVars, procVars, diskVars, db, events>>
            /\ (pc = "terminate_process" /\ pc2 # pc) =>
                   /\ pc2 = "terminate_worktree"
                   /\ status'[id] = "Terminated"
                   /\ process'[id] = NoChild
                   /\ process[id] # NoChild => ~children'[process[id]].alive
                   /\ UNCHANGED <<sessions, diskVars, db, events>>
            /\ (pc = "terminate_worktree" /\ pc2 = "terminate_db") =>
                   /\ worktree[id].worktree_path \notin worktrees'
                   /\ UNCHANGED <<sessions, sessVars, procVars, db, events>>
            /\ (pc = "terminate_db" /\ pc2 = "terminate_finish") =>
                   /\ db'[id].status = StatusJson("Terminated")
                   /\ UNCHANGED <<sessions, sessVars, procVars, events>>
            /\ (pc = "terminate_finish" /\ pc2 # pc) =>
                   /\ pc2 = "returned" /\ task'[t].res = "Ok"
                   /\ events' = Append(events, Event("SessionTerminated", id, None, << >>, 0))
                   /\ UNCHANGED <<sessions, sessVars, procVars, db>>
            /\ (task[t].op = "terminate" /\ pc # "returned" /\ pc2 = "returned"
                    /\ task'[t].res = "Ok") => pc = "terminate_finish"

\* C11: a successful terminate(id) removes the session from the registry,
\* kills and drops the child and sets Terminated, removes the workspace,
\* persists Terminated and then sends exactly one SessionTerminated{id}, in this
\* order; afterwards id is not in the registry.  terminate of an id that is not
\* in the registry returns NotFound and changes nothing.
C11_TerminateOrder ==
    /\ [](\A id \in Allocated :
             /\ Cardinality(Terminations(id)) <= 1
             /\ Terminations(id) # {} => id \notin sessions)
    /\ [](\A t \in Callers :
             (task[t].op = "terminate" /\ task[t].pc = "returned" /\ task[t].res = "Ok")
                 => Cardinality(Terminations(task[t].id)) = 1)
    /\ [][C11_Steps]_vars

\* C11 witness: a terminate of a session with a live child has returned Ok, and
\* another terminate has found its id gone
C11_Witness ==
    /\ \E t \in Callers :
          /\ task[t].op = "terminate" /\ task[t].pc = "returned" /\ task[t].res = "Ok"
          /\ \E c \in DOMAIN children : children[c].session = task[t].id /\ ~children[c].alive
    /\ \E t \in Callers : task[t].pc = "returned" /\ task[t].res = "NotFound"

\* C12: resume of a registered session whose status is not Paused returns
\* NotPaused, spawns no child and leaves the status, the child handle and the
\* persisted state of the session as they are.
C12_ResumeNotPaused ==
    [][\A t \in Callers :
          (task[t].pc = "resume_check" /\ task'[t] # task[t]
              /\ status[task[t].id] # "Paused") =>
                  /\ task[t].id \in sessions
                  /\ task'[t].pc = "returned"
                  /\ task'[t].res = "NotPaused"
                  /\ UNCHANGED <<sessions, sessVars, procVars, diskVars, db, events>>
      ]_vars

\* C12 witness: a resume of a registered session that is Ready was refused
C12_Witness ==
    \E t \in Callers :
        /\ task[t].op = "resume" /\ task[t].pc = "returned" /\ task[t].res = "NotPaused"
        /\ task[t].id \in sessions
        /\ status[task[t].id] = "Ready"
        /\ process[task[t].id] # NoChild

Terminal == {"Completed", "Terminated"}

\* C13: on a registered session whose status is Completed or Terminated,
\* pause, resume, send_input and update_config fail with the Terminal error and
\* leave the status and the child handle as they are; list_active and
\* get_output succeed.
C13_TerminalRefused ==
    [][\A t \in Callers :
          LET id == task[t].id
          IN  /\ (/\ task[t].op \in {"pause", "resume", "send_input", "update_config"}
                  /\ task[t].pc # "returned" /\ task'[t].pc = "returned"
                  /\ id \in sessions /\ status[id] \in Terminal) =>
                     /\ task'[t].res = "Terminal"
                     /\ status'[id] = status[id]
                     /\ process'[id] = process[id]
              /\ (/\ task[t].op = "get_output"
                  /\ task[t].pc # "returned" /\ task'[t].pc = "returned"
                  /\ id \in sessions /\ status[id] \in Terminal) =>
                     task'[t].res = "Ok"
              /\ (/\ task[t].op = "list_active"
                  /\ task[t].pc # "returned" /\ task'[t].pc = "returned"
                  /\ \E s \in sessions : status[s] \in Terminal) =>
                     task'[t].res = "Ok"
      ]_vars

\* C16: after a successful update_config(id, new_config) the auto_yes flag of
\* the session, as list_active reports it and as the auto-responder reads it,
\* is new_config.auto_yes, and no other field of the config has changed.
C16_AutoYesUpdated ==
    [][\A t \in Callers :
          LET id == task[t].id
          IN  (/\ task[t].op = "update_config"
               /\ task[t].pc # "returned" /\ task'[t].pc = "returned"
               /\ task'[t].res = "Ok") =>
                  /\ config'[id].auto_yes = task[t].auto_yes
                  /\ \A f \in DOMAIN config[id] \ {"auto_yes"} : config'[id][f] = config[id][f]
      ]_vars

\* C14: the output buffer of a session never holds more than
\* max_output_buffer lines, whatever the configured value.
C14_BufferBounded ==
    \A id \in Allocated : Len(output_buffer[id]) <= config[id].max_output_buffer

\* every line appended to the buffer of a session so far, in arrival order
\* (one child per session)
Appended(id) ==
    LET cs == {c \in DOMAIN children : children[c].session = id /\ InFlight(c) # << >>}
    IN  OutputsOfSession(id) \o (IF cs = {} THEN << >> ELSE InFlight(CHOOSE c \in cs : TRUE))

Min(a, b) == IF a <= b THEN a ELSE b
Last(s, n) == SubSeq(s, Len(s) - n + 1, Len(s))

\* C15: after M > max_output_buffer appends the buffer holds the last
\* max_output_buffer appended lines in arrival order, and get_recent(n) returns
\* the last min(n, length) lines of the buffer in arrival order and leaves the
\* buffer as it is.
C15_RingBuffer ==
    /\ [](\A id \in Allocated :
             Len(Appended(id)) > config[id].max_output_buffer =>
                 output_buffer[id] = Last(Appended(id), config[id].max_output_buffer))
    /\ [][\A t \in Callers :
             (task[t].pc = "output_preview" /\ task'[t].pc = "returned") =>
                 LET buf == output_buffer[task[t].id]
                 IN  /\ task'[t].out = Last(buf, Min(task[t].lines, Len(buf)))
                     /\ output_buffer' = output_buffer
        ]_vars

\* the lines of a buffer that some prompt pattern matches
Prompts(buf) == {i \in DOMAIN buf : \E k \in 1..NumPatterns : PatternMatches(k, buf[i])}

\* the replies written to the children of a session
RECURSIVE Replies(_, _)
Replies(id, cs) ==
    IF cs = {} THEN 0
    ELSE LET c == CHOOSE c \in cs : TRUE
         IN  (IF children[c].session = id THEN Len(children[c].stdin) ELSE 0)
             + Replies(id, cs \ {c})

\* C17: a prompt of an auto_yes session in Ready is answered exactly once:
\* later ticks send no further reply while no new output has arrived, so a
\* session has never got more replies than its output has prompts.
C17_RepliedOnce ==
    \A id \in Allocated : Replies(id, DOMAIN children) <= Cardinality(Prompts(output_buffer[id]))

\* the most recent lines of an output preview
Recent(preview) ==
    LET lines == Lines(preview)
    IN  IF Len(lines) <= RecentLines THEN lines ELSE Last(lines, RecentLines)

\* C18: in a tick the responder writes a reply only to a session that, in the
\* list_active snapshot of that tick, has auto_yes, is Ready and has a line
\* matching a prompt pattern among its most recent (at most 5) output lines;
\* no other session gets input.
C18_ReplyFilter ==
    [][\A c \in DOMAIN children :
          children'[c].stdin # children[c].stdin =>
              LET info == Head(task[Responder].infos)
              IN  /\ task[Responder].op = "tick"
                  /\ children[c].session = info.id
                  /\ info.auto_yes
                  /\ info.status = "Ready"
                  /\ Prompts(Recent(info.output_preview)) # {}
                  /\ \A d \in DOMAIN children \ {c} : children'[d].stdin = children[d].stdin
      ]_vars

\* C18 witness: the responder has answered the prompt of an auto_yes session
C18_Witness ==
    \E c \in DOMAIN children :
        /\ children[c].stdin = <<Str_yes \o <<"\n">> >>
        /\ config[children[c].session].auto_yes
        /\ Prompts(output_buffer[children[c].session]) # {}

\* the shutdown signal; SessionEvent has no such variant
ShutdownSignal(e) == e.type = "Shutdown"

\* C19: the responder loop ends only when a shutdown signal is delivered;
\* a failed send_input and an ordinary session event on the bus do not end it.
C19_EndsOnShutdownOnly ==
    [][(task[Responder].pc # "stopped" /\ task'[Responder].pc = "stopped") =>
           ShutdownSignal(Received)
      ]_vars

CriticalTokens == {Str_FATAL, Str_CRITICAL, Str_FailedInit, Str_PermDenied}

\* what a step in which the stderr pump of child c reads a line has done
C20_StderrLine(c) ==
    LET id == children[c].session
        buf == output_buffer'[id]
        entry == buf[Len(buf)]
        line == SubSeq(entry, Len(Str_ErrorPrefix) + 1, Len(entry))
    IN  /\ buf # << >>
        /\ IsPrefix(Str_ErrorPrefix, entry)
        /\ buf = append_output(output_buffer[id], entry, config[id].max_output_buffer)
        /\ IF \E tok \in CriticalTokens : Contains(line, tok)
           THEN /\ status'[id] = "Error"
                /\ error_message'[id] = Some(line)
                /\ events' = Append(events, Event("Error", id, None, line, c))
           ELSE /\ status'[id] = status[id]
                /\ error_message'[id] = error_message[id]
                /\ events' = events

\* C20: a stderr line with a critical-error token is appended to the buffer
\* with the prefix '[ERROR] ', sets the status to Error and error_message to
\* the line without the prefix, and sends exactly one Error{id, line}; a stderr
\* line without such a token is appended with the prefix and changes neither
\* status nor error_message and sends no event.
C20_CriticalStderr ==
    [][\A c \in DOMAIN children :
          stderr_pump'[c].n # stderr_pump[c].n => C20_StderrLine(c)
      ]_vars

\* C20 witness: a session in Error after 'Permission denied' on stderr, which
\* followed a stderr line without a token
C20_Witness ==
    \E id \in Allocated :
        /\ status[id] = "Error"
        /\ error_message[id] = Some(Line_Denied)
        /\ output_buffer[id] = <<Str_ErrorPrefix \o Line_warn, Str_ErrorPrefix \o Line_Denied>>
        /\ Cardinality({i \in DOMAIN events : events[i].type = "Error"}) = 1

\* C21: send_input on a registered session without a child handle returns
\* NotRunning and writes nothing; on an id that is not in the registry it
\* returns NotFound; in both cases nothing of the sessions changes.
C21_SendInputRefused ==
    [][\A t \in Tasks :
          LET id == task[t].id
          IN  /\ (task[t].pc = "input_lock" /\ task'[t] # task[t] /\ id \notin sessions) =>
                     /\ task'[t].pc = "returned" /\ task'[t].res = "NotFound"
                     /\ UNCHANGED <<sessions, sessVars, procVars, diskVars, db, events>>
              /\ (task[t].pc = "input_write" /\ task'[t] # task[t] /\ process[id] = NoChild) =>
                     /\ id \in sessions
                     /\ task'[t].pc = "returned" /\ task'[t].res = "NotRunning"
                     /\ UNCHANGED <<sessions, sessVars, procVars, diskVars, db, events>>
      ]_vars

\* C21 witness: send_input on a paused session has returned NotRunning
C21_Witness ==
    \E t \in Callers :
        /\ task[t].op = "send_input" /\ task[t].pc = "returned"
        /\ task[t].res = "NotRunning"
        /\ task[t].id \in sessions
        /\ status[task[t].id] = "Paused"
        /\ \A c \in DOMAIN children : children[c].stdin = << >>

\* a create of task t fails at the workspace
CreateCollides(t) ==
    /\ task[t].pc = "create_worktree"
    /\ task'[t].pc = "returned"
    /\ task'[t].res = "VcsCreateFailed"

\* C22: the sessions of the registry have pairwise distinct workspace paths
\* and pairwise distinct branch names, also when their ids share the first 8
\* characters; a create that collides fails and leaves the workspace and the
\* branch of the registered session alone.
C22_UniqueWorkspaces ==
    /\ [](\A a, b \in sessions :
             a # b => /\ worktree[a].worktree_path # worktree[b].worktree_path
                      /\ worktree[a].branch_name # worktree[b].branch_name)
    /\ [][\A t \in Callers :
             CreateCollides(t) =>
                 \A s \in sessions :
                     /\ worktree[s].worktree_path \in worktrees
                            => worktree[s].worktree_path \in worktrees'
                     /\ worktree[s].branch_name \in branches
                            => worktree[s].branch_name \in branches'
        ]_vars

\* the events sent that subscriber u has not yet taken from the bus
Lag(u) == Len(events) - task[u].next

\* C23: every subscriber receives events sent after its subscription, in the
\* order they were sent and each at most once, and none is missing unless it
\* was told that it lagged; a step of one subscriber leaves the bus and the
\* other subscribers alone, a send leaves every subscriber alone whatever its
\* lag, and a subscriber more than BusCapacity events behind skips to the
\* oldest retained event with a lag signal instead of an event.
C23_EventBus ==
    /\ [](\A u \in Subscribers :
            LET r == task[u].received
            IN  /\ \A i \in 1..Len(r) :
                       /\ r[i].seq > task[u].since
                       /\ r[i].seq <= Len(events)
                       /\ r[i].event = events[r[i].seq]
                /\ \A i, j \in 1..Len(r) : i < j => r[i].seq < r[j].seq
                /\ task[u].res # "Lagged" =>
                       \A i \in 1..Len(r) : r[i].seq = task[u].since + i)
    /\ [][\A u \in Subscribers :
            (task[u].pc = "recv" /\ task'[u] # task[u]) =>
                /\ events' = events
                /\ \A v \in Subscribers \ {u} : task'[v] = task[v]
                /\ IF Lag(u) > BusCapacity
                   THEN /\ task'[u].res = "Lagged"
                        /\ task'[u].next = Len(events) - BusCapacity
                        /\ task'[u].received = task[u].received
                   ELSE /\ task'[u].res # "Lagged"
                        /\ task'[u].received =
                               Append(task[u].received,
                                      [seq |-> task[u].next + 1,
                                       event |-> events[task[u].next + 1]])
         ]_vars
    /\ [][events' # events => \A u \in Subscribers : task'[u] = task[u]]_vars

\* one subscriber has lagged by more than the capacity and was told so while
\* the other one, subscribed as early, has received every event
C23_Witness ==
    /\ task["u1"].res = "Lagged"
    /\ task["u1"].since = task["u2"].since
    /\ task["u2"].pc = "recv"
    /\ Len(task["u2"].received) > BusCapacity
    /\ Len(task["u2"].received) > Len(task["u1"].received)
    /\ Lag("u2") = 0

\* the substrings that make a prompt dangerous, and text holding d with each
\* letter in either case
DangerousSubstrings ==
    {Str_delete, Str_remove, Str_force, Str_overwrite, Str_destructive,
     Str_permanent, Str_cannot_undone, Str_are_you_sure}
ContainsAnyCase(text, d) ==
    \E i \in 1..Len(text) :
        /\ i + Len(d) - 1 <= Len(text)
        /\ \A k \in 1..Len(d) : text[i + k - 1] \in {d[k], ToUpper(d[k])}

\* C24: is_safe_prompt returns false for every text that contains one of the
\* dangerous substrings with each letter in either case, and true for every
\* text that contains none.
C24_SafetyGuard ==
    \A t \in Callers :
        task[t].op = "is_safe_prompt" =>
            (task[t].res = "false" <=>
                 \E d \in DangerousSubstrings : ContainsAnyCase(task[t].input, d))

\* is_safe_prompt has refused a text with a dangerous word in mixed case
C24_Witness ==
    /\ task["t1"].op = "is_safe_prompt"
    /\ task["t1"].res = "false"
    /\ task["t1"].input = <<"x", " ">> \o Capitalised(Str_overwrite) \o <<"?">>

\* C25: a status of Completed or Terminated never changes: no line read from
\* the child, no critical error, no pause and no resume moves it.
C25_TerminalIsFinal ==
    [][\A id \in DOMAIN status :
          status[id] \in {"Completed", "Terminated"} => status'[id] = status[id]]_vars

\* list_active_sessions holds its read guard, has a session left whose diff
\* takes the read lock again, and a writer is first in the queue: the writer
\* waits for the guard, the second read waits behind the writer
ListActiveBlocked(t) ==
    /\ task[t].pc = "list_diff"
    /\ task[t].todo # {}
    /\ readers[t] > 0
    /\ waitq # << >>
    /\ Head(waitq)[1] # t
    /\ Head(waitq)[2] = "write"

\* C26: list_active_sessions is never blocked for good on the registry lock
\* it already holds, whatever create or terminate is waiting for the write
\* lock.
C26_ListActiveReturns == \A t \in Tasks : ~ListActiveBlocked(t)

\* C27: create_session moves the status to Running only from Initializing:
\* a status the stdout task has set in the meantime is left as it is.
C27_RunningFromInitializing ==
    [][\A t \in Callers :
          LET id == task[t].id
          IN  (task[t].pc = "create_status" /\ task'[t].pc = "create_insert"
                   /\ status[id] # "Initializing") =>
                  status'[id] = status[id]]_vars

\* a pause_session on the session has just returned Ok
PauseSucceeded(id) ==
    \E t \in Callers :
        /\ task[t].op = "pause" /\ task[t].id = id
        /\ task[t].pc = "returned" /\ task[t].res = "Ok"

\* C28: once pause_session has returned, the status of the registered session
\* leaves Paused only in a step of resume_session or terminate_session on it:
\* no line of the killed child moves it.
C28_PausedUntilResumed ==
    [][\A id \in sessions :
          (status[id] = "Paused" /\ PauseSucceeded(id) /\ status'[id] # "Paused") =>
              \E t \in Callers :
                  /\ task[t].op \in {"resume", "terminate"}
                  /\ task[t].id = id
                  /\ task'[t] # task[t]]_vars

\* C29: a terminate_session that has removed the session from the registry
\* and returned an error has still emitted SessionTerminated and persisted
\* the status Terminated.
C29_TerminateCompletes ==
    \A t \in Callers :
        LET id == task[t].id
        IN  (task[t].op = "terminate" /\ task[t].pc = "returned"
                 /\ task[t].res \notin {"Ok", "NotFound"}) =>
                /\ \E i \in DOMAIN events :
                       events[i].type = "SessionTerminated" /\ events[i].session_id = id
                /\ db[id].status = StatusJson("Terminated")

====
